---------------------------- MODULE Spec2Model ----------------------------
(***************************************************************************)
(* A model of the Telegram bot of src/bot.py: the free-text router, the    *)
(* symbol resolver, the per-chat fiat preference, the price handlers, the  *)
(* airdrop aggregator and its paginated list; and of the price functions   *)
(* of src/utils/crypto.py.                                                 *)
(*                                                                         *)
(* A Python str is a sequence of one-character strings, so that the        *)
(* regular expressions, lower() and strip() are computed character by      *)
(* character.  None and the empty str are both the empty sequence: the     *)
(* code tests them with "if not x" only.                                   *)
(***************************************************************************)
EXTENDS Integers, Sequences, FiniteSets, TLC

VARIABLES
    FIAT_PREFS,   \* bot.py:55   dict chat_id -> fiat
    client,       \* bot.py:44   TRUE iff the OpenAI client was built
    update,       \* the update the dispatcher handed to a handler (or NoUpdate)
    last,         \* what the handler of `update` did (or NoResult: not yet run)
    stored,       \* history: per chat, the fiat /setfiat last confirmed
    prevQuote,    \* history: ids and fiat of the latest upstream price request
    elapsed,      \* history: clock ticks since that request (capped)
    AIRDROPS,     \* bot.py:129  the list of Airdrop
    LAST_AIR_UPDATE, \* bot.py:130  TRUE iff a datetime was stored
    airpc,        \* where airupdate_cmd (cmd) and job_airupdate (job) stand
    keyboards,    \* the buttons of the keyboards sent so far (callback data)
    seen,         \* what the latest airdrop handler read of AIRDROPS
    updated,      \* history: an airdrop update has completed
    scraped       \* history: what the sources gave the latest update

botVars == <<FIAT_PREFS, client, update, last, stored, prevQuote, elapsed>>
airVars ==
    <<AIRDROPS, LAST_AIR_UPDATE, airpc, keyboards, seen, updated, scraped>>
vars == <<botVars, airVars>>

---------------------------------------------------------------------------
(* Bounds of the model. *)

\* Longest text of the exhaustive free-text specification SpecParse.
MaxLen == 4
\* Stand-in, in clock ticks, for the quote cache TTL the specification asks for.
QuoteTtl == 2

---------------------------------------------------------------------------
(* Characters and the str methods the code uses. *)

Digits == {"0", "1", "2", "3", "4", "5", "6", "7", "8", "9"}
Lowers ==
    {"a", "b", "c", "d", "e", "f", "g", "h", "i", "j", "k", "l", "m",
     "n", "o", "p", "q", "r", "s", "t", "u", "v", "w", "x", "y", "z"}
Uppers ==
    {"A", "B", "C", "D", "E", "F", "G", "H", "I", "J", "K", "L", "M",
     "N", "O", "P", "Q", "R", "S", "T", "U", "V", "W", "X", "Y", "Z"}
Alnum == Digits \cup Lowers \cup Uppers
\* \s of the re module, and what str.strip() removes
Space == {" ", "\t", "\n"}

LowerTable ==
       ("A" :> "a") @@ ("B" :> "b") @@ ("C" :> "c") @@ ("D" :> "d")
    @@ ("E" :> "e") @@ ("F" :> "f") @@ ("G" :> "g") @@ ("H" :> "h")
    @@ ("I" :> "i") @@ ("J" :> "j") @@ ("K" :> "k") @@ ("L" :> "l")
    @@ ("M" :> "m") @@ ("N" :> "n") @@ ("O" :> "o") @@ ("P" :> "p")
    @@ ("Q" :> "q") @@ ("R" :> "r") @@ ("S" :> "s") @@ ("T" :> "t")
    @@ ("U" :> "u") @@ ("V" :> "v") @@ ("W" :> "w") @@ ("X" :> "x")
    @@ ("Y" :> "y") @@ ("Z" :> "z")

\* str.upper()
upper(s) ==
    [i \in 1..Len(s) |->
        IF s[i] \in Lowers THEN CHOOSE u \in Uppers : LowerTable[u] = s[i]
        ELSE s[i]]

\* s.split(sep), sep one character
RECURSIVE split(_, _)
split(s, sep) ==
    LET at == {i \in 1..Len(s) : s[i] = sep}
    IN  IF at = {} THEN <<s>>
        ELSE LET i == CHOOSE x \in at : \A y \in at : x <= y
             IN  <<SubSeq(s, 1, i - 1)>> \o split(SubSeq(s, i + 1, Len(s)), sep)

\* str.lower()
lower(s) ==
    [i \in 1..Len(s) |-> IF s[i] \in Uppers THEN LowerTable[s[i]] ELSE s[i]]

RECURSIVE lstrip(_)
lstrip(s) ==
    IF s # <<>> /\ Head(s) \in Space THEN lstrip(Tail(s)) ELSE s

RECURSIVE rstrip(_)
rstrip(s) ==
    IF s # <<>> /\ s[Len(s)] \in Space
    THEN rstrip(SubSeq(s, 1, Len(s) - 1)) ELSE s

\* str.strip()
strip(s) == rstrip(lstrip(s))

---------------------------------------------------------------------------
(* Regular expressions.  Every pattern of the program is a concatenation   *)
(* of greedy repetitions of one character class, anchored at both ends:   *)
(* a sequence of items <<class, min, max>> (max = -1: unbounded).         *)

InClass(c, cls) ==
    CASE cls = "space" -> c \in Space                       \* \s
      [] cls = "num"   -> c \in Digits \cup {"."}           \* [0-9.]
      [] cls = "alnum" -> c \in Alnum                       \* [a-zA-Z0-9]
      [] cls = "sep"   -> c \in {"/", " "}                  \* [/ ]
      [] cls = "slug"  -> c \in Lowers \cup Digits \cup {"-"} \* [a-z0-9-]

\* Length of the longest run of characters of class cls in t from position pos.
RECURSIVE Run(_, _, _)
Run(t, pos, cls) ==
    IF pos <= Len(t) /\ InClass(t[pos], cls)
    THEN 1 + Run(t, pos + 1, cls) ELSE 0

NoMatch == <<-1>>

\* The backtracking matcher: the lengths the items of pat take in the first
\* match the engine finds from pos to the end of t (each greedy repetition
\* takes the longest length that lets the rest match), or NoMatch.
RECURSIVE re_match(_, _, _)
re_match(pat, t, pos) ==
    IF pat = <<>>
    THEN IF pos = Len(t) + 1 THEN <<>> ELSE NoMatch
    ELSE LET it  == Head(pat)
             run == Run(t, pos, it[1])
             hi  == IF it[3] >= 0 /\ it[3] < run THEN it[3] ELSE run
             ok  == {n \in it[2]..hi : re_match(Tail(pat), t, pos + n) # NoMatch}
         IN  IF ok = {}
             THEN NoMatch
             ELSE LET n == CHOOSE x \in ok : \A y \in ok : y <= x
                  IN  <<n>> \o re_match(Tail(pat), t, pos + n)

RECURSIVE SumTo(_, _)
SumTo(lens, k) == IF k = 0 THEN 0 ELSE lens[k] + SumTo(lens, k - 1)

\* The text item k of a match took.
group(t, lens, k) == SubSeq(t, SumTo(lens, k - 1) + 1, SumTo(lens, k))

\* "0.25 eth idr"
PAIR_PATTERN ==
    << <<"space", 0, -1>>, <<"num", 1, -1>>, <<"space", 0, -1>>,
       <<"alnum", 1, -1>>, <<"space", 1, -1>>, <<"alnum", 1, -1>>,
       <<"space", 0, -1>> >>
\* "btc usd"
COIN_FIAT_PAT ==
    << <<"space", 0, -1>>, <<"alnum", 1, -1>>, <<"sep", 1, -1>>,
       <<"alnum", 1, -1>>, <<"space", 0, -1>> >>
\* "btc"
SINGLE_COIN ==
    << <<"space", 0, -1>>, <<"alnum", 2, 10>>, <<"space", 0, -1>> >>
\* the asset-id shape of resolve_coin_id
ID_PATTERN == << <<"slug", 3, -1>> >>

matches(pat, t) == re_match(pat, t, 1) # NoMatch

---------------------------------------------------------------------------
(* float(): an optional sign, digits with at most one ".", at least one    *)
(* digit.  The value is mant / 10^frac, negated when neg.  (The inputs of  *)
(* the model hold no exponent, underscore, "inf" or "nan".)               *)

DigitValue ==
       ("0" :> 0) @@ ("1" :> 1) @@ ("2" :> 2) @@ ("3" :> 3) @@ ("4" :> 4)
    @@ ("5" :> 5) @@ ("6" :> 6) @@ ("7" :> 7) @@ ("8" :> 8) @@ ("9" :> 9)

RECURSIVE Mantissa(_)
Mantissa(s) ==
    IF s = <<>> THEN 0
    ELSE LET c == s[Len(s)]
             r == Mantissa(SubSeq(s, 1, Len(s) - 1))
         IN  IF c \in Digits THEN 10 * r + DigitValue[c] ELSE r

NoAmount == [ok |-> FALSE, neg |-> FALSE, mant |-> 0, frac |-> 0]

\* One value, one representation: no trailing zero in the fraction.
RECURSIVE Normal(_)
Normal(a) ==
    IF a.frac > 0 /\ a.mant % 10 = 0
    THEN Normal([a EXCEPT !.mant = a.mant \div 10, !.frac = a.frac - 1])
    ELSE a

float(s0) ==
    LET s    == strip(s0)
        neg  == s # <<>> /\ Head(s) = "-"
        body == IF s # <<>> /\ Head(s) \in {"-", "+"} THEN Tail(s) ELSE s
        dots == {i \in 1..Len(body) : body[i] = "."}
        digs == {i \in 1..Len(body) : body[i] \in Digits}
    IN  IF /\ digs # {}
           /\ Cardinality(dots) <= 1
           /\ dots \cup digs = 1..Len(body)
        THEN Normal([ok   |-> TRUE,
                     neg  |-> neg,
                     mant |-> Mantissa(body),
                     frac |-> IF dots = {} THEN 0
                              ELSE Len(body) - (CHOOSE i \in dots : TRUE)])
        ELSE NoAmount


DigitChar == <<"0", "1", "2", "3", "4", "5", "6", "7", "8", "9">>

RECURSIVE DigitsOf(_)
DigitsOf(n) ==
    IF n < 10 THEN <<DigitChar[n + 1]>>
    ELSE DigitsOf(n \div 10) \o <<DigitChar[(n % 10) + 1]>>

RECURSIVE Pow10(_)
Pow10(k) == IF k = 0 THEN 1 ELSE 10 * Pow10(k - 1)

RECURSIVE ZeroPad(_, _)
ZeroPad(s, k) == IF Len(s) >= k THEN s ELSE ZeroPad(<<"0">> \o s, k)

\* str() of a float: the shortest repr, "1.0", "0.25", "-0.0" (values of the
\* model are far below the 1e16 where repr turns to an exponent).
str(a) ==
    LET ip == a.mant \div Pow10(a.frac)
        fp == a.mant % Pow10(a.frac)
    IN  (IF a.neg THEN <<"-">> ELSE <<>>)
        \o DigitsOf(ip) \o <<".">>
        \o (IF a.frac = 0 THEN <<"0">> ELSE ZeroPad(DigitsOf(fp), a.frac))

\* The "," option of the format spec: the digits of the integer part in
\* groups of three.
RECURSIVE Group(_)
Group(ds) ==
    IF Len(ds) <= 3 THEN ds
    ELSE Group(SubSeq(ds, 1, Len(ds) - 3)) \o <<",">>
         \o SubSeq(ds, Len(ds) - 2, Len(ds))

\* format(val, ",.<places>f"): val rounded to `places` fractional digits
\* (a tie goes to the even digit; the prices of the model meet no tie), the
\* sign kept, the integer part grouped.
Fixed(val, places) ==
    LET d  == IF val.frac > places THEN Pow10(val.frac - places) ELSE 1
        up == IF val.frac > places THEN 1 ELSE Pow10(places - val.frac)
        q  == (val.mant * up) \div d
        r  == (val.mant * up) % d
        n  == IF 2 * r > d \/ (2 * r = d /\ q % 2 = 1) THEN q + 1 ELSE q
        ip == n \div Pow10(places)
        fp == n % Pow10(places)
    IN  (IF val.neg THEN <<"-">> ELSE <<>>)
        \o Group(DigitsOf(ip))
        \o (IF places = 0 THEN <<>>
            ELSE <<".">> \o ZeroPad(DigitsOf(fp), places))

\* f"{val:,.4f} {fiat.upper()}"
fmt_price(val, fiat) == Fixed(val, 4) \o <<" ">> \o upper(fiat)

---------------------------------------------------------------------------
(* The symbol resolver and the price fetch, with the upstream's answers.  *)

None == <<>>

SYMBOL_MAP ==
       (<<"b","t","c">> :> <<"b","i","t","c","o","i","n">>)
    @@ (<<"e","t","h">> :> <<"e","t","h","e","r","e","u","m">>)
    @@ (<<"b","n","b">> :> <<"b","i","n","a","n","c","e","c","o","i","n">>)
    @@ (<<"u","s","d","t">> :> <<"t","e","t","h","e","r">>)
    @@ (<<"u","s","d","c">> :> <<"u","s","d","-","c","o","i","n">>)
    @@ (<<"s","o","l">> :> <<"s","o","l","a","n","a">>)
    @@ (<<"a","d","a">> :> <<"c","a","r","d","a","n","o">>)
    @@ (<<"x","r","p">> :> <<"r","i","p","p","l","e">>)
    @@ (<<"d","o","t">> :> <<"p","o","l","k","a","d","o","t">>)
    @@ (<<"d","o","g","e">> :> <<"d","o","g","e","c","o","i","n">>)
    @@ (<<"t","r","x">> :> <<"t","r","o","n">>)
    @@ (<<"m","a","t","i","c">> :> <<"p","o","l","y","g","o","n">>)
    @@ (<<"l","t","c">> :> <<"l","i","t","e","c","o","i","n">>)
    @@ (<<"a","v","a","x">> :> <<"a","v","a","l","a","n","c","h","e","-","2">>)
    @@ (<<"l","i","n","k">> :> <<"c","h","a","i","n","l","i","n","k">>)
    @@ (<<"t","o","n">> :> <<"t","h","e","-","o","p","e","n","-","n","e","t","w","o","r","k">>)
    @@ (<<"o","p">> :> <<"o","p","t","i","m","i","s","m">>)
    @@ (<<"a","r","b">> :> <<"a","r","b","i","t","r","u","m">>)
    @@ (<<"a","t","o","m">> :> <<"c","o","s","m","o","s">>)
    @@ (<<"s","u","i">> :> <<"s","u","i">>)
    @@ (<<"a","p","t">> :> <<"a","p","t","o","s">>)
    @@ (<<"n","e","a","r">> :> <<"n","e","a","r">>)
    @@ (<<"f","i","l">> :> <<"f","i","l","e","c","o","i","n">>)
    @@ (<<"b","c","h">> :> <<"b","i","t","c","o","i","n","-","c","a","s","h">>)
    @@ (<<"e","t","c">> :> <<"e","t","h","e","r","e","u","m","-","c","l","a","s","s","i","c">>)

\* Ids the upstream's search may rank.
shiba_inu == <<"s","h","i","b","a","-","i","n","u">>
bitcoin   == <<"b","i","t","c","o","i","n">>

\* What GET /search does when asked: ok = FALSE is any exception (network,
\* timeout, HTTP status, malformed JSON), else the ranked "coins" list.
SearchOutcomes ==
    {[ok |-> FALSE, coins |-> <<>>]}
    \cup {[ok |-> TRUE, coins |-> c] :
            c \in {<<>>, <<shiba_inu>>, <<bitcoin, shiba_inu>>}}

\* resolve_coin_id asking the upstream first and the table only on a miss.
resolve_coin_id_SearchFirst(sym, so) ==
    LET s == strip(lower(sym))
        r == [sym |-> sym, id |-> None, search |-> 1, answer |-> so]
    IN  IF so.ok /\ so.coins # <<>>
        THEN [r EXCEPT !.id = so.coins[1]]
        ELSE IF s \in DOMAIN SYMBOL_MAP
        THEN [r EXCEPT !.id = SYMBOL_MAP[s]]
        ELSE r

\* resolve_coin_id(sym): id is the returned Optional[str]; search counts the
\* requests it issued and answer is what the upstream did when asked (so).
resolve_coin_id(sym, so) ==
    LET s == strip(lower(sym))
        r == [sym |-> sym, id |-> None, search |-> 0,
              answer |-> [ok |-> FALSE, coins |-> <<>>]]
    IN  IF s \in DOMAIN SYMBOL_MAP
        THEN [r EXCEPT !.id = SYMBOL_MAP[s]]
        ELSE IF matches(ID_PATTERN, s)
        THEN [r EXCEPT !.id = s]
        ELSE [r EXCEPT !.search = 1, !.answer = so,
                       !.id = IF so.ok /\ so.coins # <<>>
                              THEN so.coins[1] ELSE None]

\* Most coins of one /prices request in the model.
MaxCoins == 2

\* Unit prices the upstream may quote, in units of 10^-8 of the fiat
\* (0.0000321).
PriceSamples == {3210}

\* What GET /simple/price does when asked: ok = FALSE is any exception; else
\* the payload lacks the ids requested at the positions in miss, and an entry
\* holds the fiat's price only when the upstream supports that currency (vs).
PriceOutcomes ==
    {[ok |-> FALSE, miss |-> {}, vs |-> FALSE, price |-> 0]}
    \cup [ok : {TRUE}, miss : SUBSET (1..MaxCoins), vs : BOOLEAN,
          price : PriceSamples]

\* fetch_price: data is the returned dict id -> (dict fiat -> price), calls
\* counts the upstream requests it issued.
fetch_price(ids, fiat, po) ==
    LET absent == {ids[k] : k \in po.miss \cap (1..Len(ids))}
        there  == {ids[k] : k \in 1..Len(ids)} \ absent
    IN  [data  |-> IF po.ok
                   THEN [i \in there |->
                            IF po.vs THEN (fiat :> po.price) ELSE <<>>]
                   ELSE <<>>,
         calls |-> 1]

\* utils/crypto.py fetch_price: the same request with no try around it, so
\* an exception of requests.get or raise_for_status leaves the function.
crypto_fetch_price(ids, fiat, po) ==
    [data   |-> IF po.ok THEN fetch_price(ids, fiat, po).data ELSE <<>>,
     calls  |-> 1,
     raised |-> ~po.ok]

\* utils/crypto.py fmt_price
crypto_fmt_price(val, fiat) ==
    IF fiat = <<"i","d","r">>
    THEN LET t == Fixed(val, 0)
         IN  <<"R", "p", " ">>
             \o [i \in 1..Len(t) |-> IF t[i] = "," THEN "." ELSE t[i]]
    ELSE IF fiat \in {<<"u","s","d">>, <<"u","s","d","t">>}
    THEN <<"$">> \o Fixed(val, 2)
    ELSE IF fiat = <<"e","u","r">>
    THEN <<"EUR ">> \o Fixed(val, 2)  \* the euro sign, written in ASCII
    ELSE Fixed(val, 4) \o <<" ">> \o upper(fiat)

---------------------------------------------------------------------------
(* Per-chat fiat preference. *)

\* The chats of the model.
CHATS == {1, 2}

FIAT_DEFAULT == <<"u","s","d">>

get_chat_fiat(chat_id) ==
    IF chat_id \in DOMAIN FIAT_PREFS THEN FIAT_PREFS[chat_id] ELSE FIAT_DEFAULT

\* set_chat_fiat keeping one preference for all chats.
set_chat_fiat_Shared(chat_id, fiat) ==
    [c \in CHATS |-> lower(fiat)]

\* The dict after set_chat_fiat.
set_chat_fiat(chat_id, fiat) ==
    [c \in DOMAIN FIAT_PREFS \cup {chat_id} |->
        IF c = chat_id THEN lower(fiat) ELSE FIAT_PREFS[c]]

\* {"idr","usd","usdt","eur"}
ALLOWED_FIATS ==
    { <<"i","d","r">>, <<"u","s","d">>, <<"u","s","d","t">>, <<"e","u","r">> }

---------------------------------------------------------------------------
(* Handlers.  A handler's result records what it did: the replies it sent, *)
(* the requests it issued, and whether an exception left it.               *)

NoResult ==
    [handler  |-> "none",  \* the handler the dispatcher called
     branch   |-> "-",     \* text_router: the branch taken
     replies  |-> <<>>,    \* kinds of the messages sent, in order
     raised   |-> FALSE,   \* an exception propagated out of the handler
     ai       |-> 0,       \* chat-completion requests
     price    |-> 0,       \* upstream /simple/price requests
     ids      |-> <<>>,    \* ids of the price request
     fiat     |-> None,    \* fiat the handler worked with
     omitted  |-> FALSE,   \* the fiat came from get_chat_fiat
     resolved |-> <<>>,    \* the calls of resolve_coin_id, in order
     amount   |-> NoAmount,
     shown    |-> NoAmount,\* the price or total displayed
     text     |-> <<>>,    \* that price or total as fmt_price wrote it
     lines    |-> <<>>]    \* /prices: the lines displayed

Money(p) == Normal([ok |-> TRUE, neg |-> FALSE, mant |-> p, frac |-> 8])

Times(p, a) ==
    Normal([ok |-> TRUE, neg |-> a.neg /\ a.mant # 0, mant |-> p * a.mant,
            frac |-> a.frac + 8])

reply_price(sym, fiat, so, po) ==
    LET r    == resolve_coin_id(sym, so)
        cid  == r.id
        base == [NoResult EXCEPT !.handler = "reply_price", !.fiat = fiat,
                                 !.resolved = <<r>>]
    IN  IF cid = None
        THEN [base EXCEPT !.replies = <<"not_found">>]
        ELSE LET f    == fetch_price(<<cid>>, fiat, po)
                 data == f.data
                 b2   == [base EXCEPT !.price = f.calls, !.ids = <<cid>>]
             IN  IF cid \notin DOMAIN data \/ fiat \notin DOMAIN data[cid]
                 THEN [b2 EXCEPT !.replies = <<"pair_unavailable">>]
                 ELSE [b2 EXCEPT !.replies = <<"price">>,
                                 !.shown = Money(data[cid][fiat]),
                                 !.text = fmt_price(Money(data[cid][fiat]), fiat)]

price_cmd(chat_id, args, so, po) ==
    IF args = <<>>
    THEN [NoResult EXCEPT !.handler = "price_cmd", !.replies = <<"usage">>]
    ELSE LET sym  == args[1]
             fiat == lower(IF Len(args) > 1 THEN args[2]
                           ELSE get_chat_fiat(chat_id))
         IN  [reply_price(sym, fiat, so, po) EXCEPT
                 !.handler = "price_cmd", !.omitted = (Len(args) <= 1)]

convert_cmd(chat_id, args, so, po) ==
    LET base == [NoResult EXCEPT !.handler = "convert_cmd"]
    IN  IF Len(args) < 3
        THEN [base EXCEPT !.replies = <<"usage">>]
        ELSE LET amount == float(args[1])
             IN  IF ~amount.ok
                 THEN [base EXCEPT !.replies = <<"amount_invalid">>]
                 ELSE
    LET sym  == args[2]
        fiat == lower(args[3])
        r    == resolve_coin_id(sym, so)
        cid  == r.id
        b1   == [base EXCEPT !.amount = amount, !.fiat = fiat,
                             !.resolved = <<r>>]
    IN  IF cid = None
        THEN [b1 EXCEPT !.replies = <<"not_found">>]
        ELSE LET f    == fetch_price(<<cid>>, fiat, po)
                 data == f.data
                 b2   == [b1 EXCEPT !.price = f.calls, !.ids = <<cid>>]
             IN  IF cid \notin DOMAIN data \/ fiat \notin DOMAIN data[cid]
                 THEN [b2 EXCEPT !.replies = <<"pair_unavailable">>]
                 ELSE [b2 EXCEPT !.replies = <<"converted">>,
                                 !.shown = Times(data[cid][fiat], amount),
                                 !.text = fmt_price(Times(data[cid][fiat], amount),
                                                    fiat)]

\* res is the handler's result, prefs the dict FIAT_PREFS it leaves.
setfiat_cmd(chat_id, args) ==
    LET base == [NoResult EXCEPT !.handler = "setfiat_cmd"]
    IN  IF args = <<>>
        THEN [res   |-> [base EXCEPT !.replies = <<"fiat_show">>,
                                     !.fiat = get_chat_fiat(chat_id)],
              prefs |-> FIAT_PREFS]
        ELSE LET fiat == lower(args[1])
             IN  IF fiat \notin ALLOWED_FIATS
                 THEN [res   |-> [base EXCEPT !.replies = <<"fiat_invalid">>,
                                              !.fiat = fiat],
                       prefs |-> FIAT_PREFS]
                 ELSE [res   |-> [base EXCEPT !.replies = <<"fiat_set">>,
                                              !.fiat = fiat],
                       prefs |-> set_chat_fiat(chat_id, fiat)]

\* The chat-completion fallback of text_router: ao = FALSE is any exception
\* of the request, which the handler logs before it answers itself.
ai_fallback(ao) ==
    LET base == [NoResult EXCEPT !.handler = "text_router",
                                 !.branch = "unrecognized"]
    IN  IF client /\ ao
        THEN [base EXCEPT !.ai = 1, !.replies = <<"ai_answer">>]
        ELSE [base EXCEPT !.ai = IF client THEN 1 ELSE 0,
                          !.replies = <<"unrecognized">>]

\* The matching of text_router: the first pattern, in the order the code
\* tries them, that matches the stripped text, with its groups.
text_route(text0) ==
    LET text == strip(text0)
        m1   == re_match(PAIR_PATTERN, text, 1)
        m2   == re_match(COIN_FIAT_PAT, text, 1)
        m3   == re_match(SINGLE_COIN, text, 1)
        none == [pat |-> "none", g1 |-> <<>>, g2 |-> <<>>, g3 |-> <<>>]
    IN  IF m1 # NoMatch
        THEN [pat |-> "PAIR_PATTERN", g1 |-> group(text, m1, 2),
              g2 |-> group(text, m1, 4), g3 |-> group(text, m1, 6)]
        ELSE IF m2 # NoMatch
        THEN [none EXCEPT !.pat = "COIN_FIAT_PAT", !.g1 = group(text, m2, 2),
                          !.g2 = group(text, m2, 4)]
        ELSE IF m3 # NoMatch
        THEN [none EXCEPT !.pat = "SINGLE_COIN", !.g1 = group(text, m3, 2)]
        ELSE none

\* text_router without the try around float(): the ValueError leaves it.
text_router_NoExcept(chat_id, m, so, po, ao) ==
    IF m.pat = "PAIR_PATTERN" /\ ~float(m.g1).ok
    THEN [NoResult EXCEPT !.handler = "text_router", !.branch = "convert",
                          !.raised = TRUE]
    ELSE IF m.pat = "PAIR_PATTERN"
    THEN [convert_cmd(chat_id, <<str(float(m.g1)), m.g2, lower(m.g3)>>, so, po)
          EXCEPT !.handler = "text_router", !.branch = "convert"]
    ELSE IF m.pat = "COIN_FIAT_PAT"
    THEN [reply_price(m.g1, lower(m.g2), so, po)
          EXCEPT !.handler = "text_router", !.branch = "pair"]
    ELSE IF m.pat = "SINGLE_COIN"
    THEN [reply_price(m.g1, get_chat_fiat(chat_id), so, po)
          EXCEPT !.handler = "text_router", !.branch = "single",
                 !.omitted = TRUE]
    ELSE ai_fallback(ao)

\* text_router without the returns of the price branches: a lookup that
\* found nothing goes on to the chat-completion fallback.
text_router_FallThrough(chat_id, m, so, po, ao) ==
    LET r == IF m.pat = "COIN_FIAT_PAT"
             THEN reply_price(m.g1, lower(m.g2), so, po)
             ELSE reply_price(m.g1, get_chat_fiat(chat_id), so, po)
    IN  IF m.pat = "PAIR_PATTERN"
        THEN text_router_NoExcept(chat_id,
                [m EXCEPT !.g1 = IF float(m.g1).ok THEN m.g1 ELSE <<"0">>],
                so, po, ao)
        ELSE IF m.pat \in {"COIN_FIAT_PAT", "SINGLE_COIN"}
                /\ r.replies = <<"price">>
        THEN [r EXCEPT !.handler = "text_router",
                       !.branch = IF m.pat = "COIN_FIAT_PAT" THEN "pair"
                                  ELSE "single",
                       !.omitted = (m.pat = "SINGLE_COIN")]
        ELSE IF m.pat = "none"
        THEN ai_fallback(ao)
        ELSE [ai_fallback(ao) EXCEPT
                 !.branch = IF m.pat = "COIN_FIAT_PAT" THEN "pair" ELSE "single",
                 !.replies = r.replies \o @, !.resolved = r.resolved,
                 !.price = r.price, !.ids = r.ids, !.fiat = r.fiat]

\* text_router after the matching m = text_route(text).
text_router(chat_id, m, so, po, ao) ==
    IF m.pat = "PAIR_PATTERN"
    THEN LET amount == float(m.g1)
         IN  IF ~amount.ok
             THEN [NoResult EXCEPT !.handler = "text_router",
                      !.branch = "convert", !.replies = <<"format">>]
             ELSE [convert_cmd(chat_id, <<str(amount), m.g2, lower(m.g3)>>,
                               so, po)
                   EXCEPT !.handler = "text_router", !.branch = "convert"]
    ELSE IF m.pat = "COIN_FIAT_PAT"
    THEN [reply_price(m.g1, lower(m.g2), so, po)
          EXCEPT !.handler = "text_router", !.branch = "pair"]
    ELSE IF m.pat = "SINGLE_COIN"
    THEN [reply_price(m.g1, get_chat_fiat(chat_id), so, po)
          EXCEPT !.handler = "text_router", !.branch = "single",
                 !.omitted = TRUE]
    ELSE ai_fallback(ao)

\* [c.strip() for c in arg.split(",") if c.strip()]
coin_list(arg) ==
    LET parts == split(arg, ",")
        kept  == SelectSeq(parts, LAMBDA c : strip(c) # <<>>)
    IN  [k \in 1..Len(kept) |-> strip(kept[k])]

\* The subsequence of rs (results of resolve_coin_id) that resolved.
RECURSIVE found(_)
found(rs) ==
    IF rs = <<>> THEN <<>>
    ELSE (IF Head(rs).id # None THEN <<Head(rs).id>> ELSE <<>>) \o found(Tail(rs))

\* sos[k] is what the upstream's search does for the k-th coin.
prices_cmd(chat_id, args, sos, po) ==
    LET base == [NoResult EXCEPT !.handler = "prices_cmd"]
    IN  IF args = <<>>
        THEN [base EXCEPT !.replies = <<"usage">>]
        ELSE
    LET coins == coin_list(args[1])
        fiat  == lower(IF Len(args) > 1 THEN args[2] ELSE get_chat_fiat(chat_id))
        rs    == [k \in 1..Len(coins) |->
                    resolve_coin_id(coins[k], sos[((k - 1) % MaxCoins) + 1])]
        ids   == found(rs)
        \* name_map[cid] = c.upper(): the last coin resolving to cid wins
        name_map(cid) ==
            LET ks == {k \in 1..Len(coins) : rs[k].id = cid}
            IN  upper(coins[CHOOSE k \in ks : \A j \in ks : j <= k])
        b1    == [base EXCEPT !.fiat = fiat, !.omitted = (Len(args) <= 1),
                              !.resolved = rs]
    IN  IF ids = <<>>
        THEN [b1 EXCEPT !.replies = <<"not_found">>]
        ELSE LET f     == fetch_price(ids, fiat, po)
                 data  == f.data
                 shows == SelectSeq(ids, LAMBDA cid :
                             cid \in DOMAIN data /\ fiat \in DOMAIN data[cid])
                 lines == [k \in 1..Len(shows) |->
                             [name  |-> name_map(shows[k]), cid |-> shows[k],
                              shown |-> Money(data[shows[k]][fiat]),
                              text  |-> fmt_price(Money(data[shows[k]][fiat]),
                                                  fiat)]]
             IN  [b1 EXCEPT !.price = f.calls, !.ids = ids, !.lines = lines,
                            !.replies = IF lines # <<>> THEN <<"prices">>
                                        ELSE <<"fetch_failed">>]

---------------------------------------------------------------------------
(* Updates: a free text or a command with its whitespace-split args.      *)

NoUpdate == [type |-> "none", chat |-> 0, cmd |-> "-", text |-> <<>>, args |-> <<>>]

Text(chat_id, t) == [NoUpdate EXCEPT !.type = "text", !.chat = chat_id, !.text = t]
Cmd(chat_id, c, a) ==
    [NoUpdate EXCEPT !.type = "cmd", !.chat = chat_id, !.cmd = c, !.args = a]

\* A direct call of a function of utils/crypto.py by some caller.
Call(f, a) == [NoUpdate EXCEPT !.type = "call", !.cmd = f, !.args = a]

btc == <<"b","t","c">>
BTC == <<"B","T","C">>
eth == <<"e","t","h">>
xy  == <<"x","y">>
usd == <<"u","s","d">>
idr == <<"i","d","r">>
EUR == <<"E","U","R">>
jpy == <<"j","p","y">>
one == <<"1">>

\* Updates of the resolver and quote specification: tickers of SYMBOL_MAP in
\* either case ("btc", "BTC"), with a leading "$", of the id shape ("shib")
\* and too short for it ("xy").
SymSamples == { btc, BTC, <<"$">> \o btc, <<"s","h","i","b">>, xy }

Updates ==
    {Cmd(1, "price", <<s>>) : s \in SymSamples}
    \cup { Cmd(1, "price", <<btc, idr>>),
           Cmd(1, "prices", <<btc \o <<",">> \o xy>>),
           Cmd(1, "convert", <<one, xy, idr>>),
           Cmd(1, "setfiat", <<idr>>),
           Text(1, xy),
           Text(1, btc \o <<" ">> \o idr) }

\* Updates of the fiat specification: fiat codes of the allow-list in
\* either case and outside it, given and omitted, in two chats.
FiatSamples == { idr, EUR, jpy }

FiatUpdates ==
    {Cmd(c, "setfiat", a) :
        c \in CHATS, a \in {<<>>} \cup {<<f>> : f \in FiatSamples}}
    \cup {Cmd(c, "price", a) : c \in CHATS, a \in {<<>>, <<btc>>, <<btc, jpy>>}}
    \cup {Cmd(c, "prices", a) :
            c \in CHATS,
            a \in {<<btc \o <<",">> \o eth>>, <<btc \o <<",">> \o eth, jpy>>}}
    \cup {Cmd(c, "convert", <<one, btc, jpy>>) : c \in CHATS}
    \cup {Text(c, t) :
            c \in CHATS,
            t \in {btc, btc \o <<" ">> \o jpy,
                   one \o <<" ">> \o btc \o <<" ">> \o jpy}}

\* Every text of at most MaxLen characters over one character of each kind
\* the patterns tell apart.
ParseChars == {"1", ".", "o", " ", "\t", "/", "$"}
ParseTexts == UNION {[1..n -> ParseChars] : n \in 0..MaxLen}

\* The upstream of the free-text specification: a search that fails or finds,
\* a price request that fails, lacks the id, lacks the fiat, or quotes.
ParseSearch == {so \in SearchOutcomes : Len(so.coins) <= 1}
\* The fiat specification's symbols are keys of SYMBOL_MAP: no search is made.
NoSearch == {so \in SearchOutcomes : ~so.ok}

\* Symbols of the resolver specification: every key of SYMBOL_MAP, in lower
\* and upper case and behind a "$", and the tickers outside the table.
ResolveSyms ==
    LET K == DOMAIN SYMBOL_MAP
    IN  K \cup {upper(k) : k \in K} \cup {<<"$">> \o k : k \in K}
          \cup SymSamples \cup {upper(xy), <<"$">> \o xy}
ParsePrices == {po \in PriceOutcomes : po.miss \subseteq {1} /\ (po.vs \/ po.miss = {})}

\* Updates of the quote specification: batches with two assets, with one
\* symbol twice and with one asset under two names; conversions of a
\* positive, a zero and a negative amount, by command and by free text;
\* single prices; and calls of the functions of utils/crypto.py.
QuoteUpdates ==
    { Cmd(1, "prices", <<btc \o <<",">> \o eth>>),
      Cmd(1, "prices", <<btc \o <<",">> \o btc>>),
      Cmd(1, "prices", <<btc \o <<",">> \o bitcoin>>),
      Cmd(1, "convert", <<one, btc, usd>>),
      Cmd(1, "convert", <<<<"0">>, btc, usd>>),
      Cmd(1, "convert", <<<<"-", "1">>, btc, usd>>),
      Text(1, one \o <<" ">> \o btc \o <<" ">> \o usd),
      Text(1, <<"0", " ">> \o btc \o <<" ">> \o usd),
      Text(1, btc \o <<" ">> \o usd),
      Cmd(1, "price", <<btc>>),
      Cmd(1, "price", <<xy>>),
      Call("fetch_price", <<bitcoin, usd>>),
      Call("fmt_price", <<usd>>),
      Call("fmt_price", <<jpy>>) }

---------------------------------------------------------------------------
(* Airdrops: the aggregator of the four scrapers and the pagination.      *)

\* per_page of airdrops_cmd and air_cb
per_page == 5

\* _slugify: lower case, stripped; characters other than \w, whitespace and
\* "-" removed; whitespace to "-"; runs of "-" to one; "-" stripped.
RECURSIVE Squeeze(_)
Squeeze(s) ==
    IF Len(s) < 2 THEN s
    ELSE IF s[1] = "-" /\ s[2] = "-" THEN Squeeze(Tail(s))
    ELSE <<s[1]>> \o Squeeze(Tail(s))

RECURSIVE StripDash(_)
StripDash(s) ==
    IF s # <<>> /\ Head(s) = "-" THEN StripDash(Tail(s))
    ELSE IF s # <<>> /\ s[Len(s)] = "-"
    THEN StripDash(SubSeq(s, 1, Len(s) - 1))
    ELSE s

_slugify(s0) ==
    LET s    == strip(lower(s0))
        kept == SelectSeq(s, LAMBDA c : c \in Alnum \cup {"_", "-"} \cup Space)
        dash == [i \in 1..Len(kept) |->
                    IF kept[i] \in Space THEN "-" ELSE kept[i]]
    IN  StripDash(Squeeze(dash))

\* The labels the four scrapers write into Airdrop.source, in the order
\* scrape_airdrops_sync calls them.
SOURCES == <<"airdrops.io", "airdropking.io", "cryptorank.io", "coingecko">>

\* An Airdrop as a scraper builds it (url plays no part in the model;
\* buttons is the attribute _buttons, None until enrich sets it).
Airdrop(name, reward, chain, source) ==
    [slug |-> _slugify(name), name |-> name, reward |-> reward,
     chain |-> chain, source |-> source, tasks |-> <<>>, buttons |-> None]

\* The entry scrape_airdrops_sync returns when nothing was scraped.
FALLBACK ==
    [slug    |-> <<"e","x","a","m","p","l","e","-","a","i","r","d","r","o","p">>,
     name    |-> <<"E","x","a","m","p","l","e"," ","A","i","r","d","r","o","p">>,
     reward  |-> <<"1","0","0"," ","T","E","S","T">>,
     chain   |-> <<"E","T","H">>,
     source  |-> "fallback",
     tasks   |-> <<"Join Telegram", "Follow X", "Claim in app">>,
     buttons |-> None]

\* What one scraper did: raised, or returned items.
Failed == [ok |-> FALSE, items |-> <<>>]
Gave(items) == [ok |-> TRUE, items |-> items]

\* results after the loop over the scrapers: res[k] is what scraper k did.
RECURSIVE results_of(_)
results_of(res) ==
    IF res = <<>> THEN <<>>
    ELSE (IF Head(res).ok THEN Head(res).items ELSE <<>>)
         \o results_of(Tail(res))

\* The dict uniq after the loop over results, as the sequence of its values
\* (a dict keeps the order in which its keys were first inserted).
RECURSIVE uniq_of(_, _)
uniq_of(uniq, results) ==
    IF results = <<>> THEN uniq
    ELSE LET a  == Head(results)
             at == {i \in 1..Len(uniq) : uniq[i].slug = a.slug}
         IN  uniq_of(
               IF at = {} THEN Append(uniq, a)
               ELSE LET i == CHOOSE x \in at : TRUE
                    IN  IF \/ (a.reward # <<>> /\ uniq[i].reward = <<>>)
                           \/ (a.chain # <<>> /\ uniq[i].chain = <<>>)
                        THEN [uniq EXCEPT ![i] = a]
                        ELSE uniq,
               Tail(results))

\* scrape_airdrops_sync without the fallback entry.
scrape_airdrops_sync_NoFallback(res) ==
    uniq_of(<<>>, results_of(res))

\* scrape_airdrops_sync returning everything the sources gave.
scrape_airdrops_sync_NoDedup(res) ==
    IF results_of(res) = <<>> THEN <<FALLBACK>> ELSE results_of(res)

scrape_airdrops_sync(res) ==
    LET final_list == uniq_of(<<>>, results_of(res))
    IN  IF final_list = <<>> THEN <<FALLBACK>> ELSE final_list

\* items[start:start + per_page]
_paged(items, page, pp) ==
    LET start == (page - 1) * pp
        stop  == IF start + pp < Len(items) THEN start + pp ELSE Len(items)
    IN  IF start >= Len(items) THEN <<>> ELSE SubSeq(items, start + 1, stop)

\* The buttons of the keyboard, each with the page of its callback data.
_air_kb(page, total, pp) ==
    LET prev == IF page > 1
                THEN <<[kind |-> "air_prev", page |-> page - 1]>> ELSE <<>>
        next == IF page * pp < total
                THEN <<[kind |-> "air_next", page |-> page + 1]>> ELSE <<>>
    IN  IF prev \o next = <<>>
        THEN <<[kind |-> "air_refresh", page |-> 1]>>
        ELSE prev \o next

\* key in s
Contains(s, key) ==
    \E i \in 0..(Len(s) - Len(key)) : SubSeq(s, i + 1, i + Len(key)) = key

\* What the request of enrich_airdrop_details gave: an exception, or the
\* tasks and the link buttons found on the page.
EnrichOutcomes ==
    { [ok |-> FALSE, tasks |-> <<>>, buttons |-> <<>>],
      [ok |-> TRUE,  tasks |-> <<>>, buttons |-> <<>>],
      [ok |-> TRUE,  tasks |-> <<"Join Discord">>, buttons |-> <<"Discord">>] }

\* The Airdrop after enrich_airdrop_details(a).
enrich_airdrop_details(a, eo) ==
    IF ~eo.ok THEN a
    ELSE [a EXCEPT !.tasks = IF eo.tasks # <<>> THEN eo.tasks ELSE a.tasks,
                   !.buttons = <<eo.buttons>>]

\* What a handler read of AIRDROPS and sent.
NoSeen ==
    [handler |-> "none", empty |-> FALSE, page |-> 0, total |-> 0,
     chunk |-> <<>>, kb |-> <<>>]

\* The page airdrops_cmd and air_cb show.
ShowPage(h, page) ==
    IF AIRDROPS = <<>>
    THEN [NoSeen EXCEPT !.handler = h, !.empty = TRUE, !.page = page]
    ELSE [NoSeen EXCEPT !.handler = h, !.page = page,
             !.total = Len(AIRDROPS),
             !.chunk = _paged(AIRDROPS, page, per_page),
             !.kb = _air_kb(page, Len(AIRDROPS), per_page)]

---------------------------------------------------------------------------
(* The state machine. *)

\* Most messages with an airdrop keyboard in the chat.
MaxMessages == 2

\* No airdrop cached, no update running, no keyboard sent.
AirIdle ==
    /\ AIRDROPS = <<>>
    /\ LAST_AIR_UPDATE = FALSE
    /\ airpc = [cmd |-> "idle", job |-> "idle"]
    /\ keyboards = <<>>
    /\ seen = NoSeen
    /\ updated = FALSE
    /\ scraped = <<>>

NoQuote == [ids |-> {}, fiat |-> None]

\* The history of upstream price requests after a handler returned res.
Quoted(res) ==
    /\ prevQuote' = IF res.price > 0
                    THEN [ids  |-> {res.ids[k] : k \in 1..Len(res.ids)},
                          fiat |-> res.fiat]
                    ELSE prevQuote
    /\ elapsed' = IF res.price > 0 THEN 0 ELSE elapsed

Init ==
    /\ FIAT_PREFS = <<>>
    /\ client \in BOOLEAN
    /\ update = NoUpdate
    /\ last = NoResult
    /\ stored = [c \in CHATS |-> None]
    /\ prevQuote = NoQuote
    /\ elapsed = QuoteTtl
    /\ AirIdle

\* The dispatcher hands the next update, one of U, to its handler.
Receive(U) ==
    /\ update = NoUpdate \/ last # NoResult
    /\ update' \in U
    /\ last' = NoResult
    /\ UNCHANGED <<FIAT_PREFS, client, stored, prevQuote, elapsed>>
    /\ UNCHANGED airVars

Pending(type, cmd) ==
    /\ last = NoResult
    /\ update.type = type
    /\ update.cmd = cmd

HandleSetfiat ==
    /\ Pending("cmd", "setfiat")
    /\ LET out == setfiat_cmd(update.chat, update.args)
       IN  /\ last' = out.res
           /\ FIAT_PREFS' = out.prefs
           /\ stored' = IF out.res.replies = <<"fiat_set">>
                        THEN [stored EXCEPT ![update.chat] = out.res.fiat]
                        ELSE stored
    /\ UNCHANGED <<client, update, prevQuote, elapsed>>
    /\ UNCHANGED airVars

HandlePrice(SO, PO) ==
    /\ Pending("cmd", "price")
    /\ \E so \in SO, po \in PO :
          /\ last' = price_cmd(update.chat, update.args, so, po)
          /\ Quoted(last')
    /\ UNCHANGED <<FIAT_PREFS, client, update, stored>>
    /\ UNCHANGED airVars

HandlePrices(SO, PO) ==
    /\ Pending("cmd", "prices")
    /\ \E sos \in [1..MaxCoins -> SO], po \in PO :
          /\ last' = prices_cmd(update.chat, update.args, sos, po)
          /\ Quoted(last')
    /\ UNCHANGED <<FIAT_PREFS, client, update, stored>>
    /\ UNCHANGED airVars

HandleConvert(SO, PO) ==
    /\ Pending("cmd", "convert")
    /\ \E so \in SO, po \in PO :
          /\ last' = convert_cmd(update.chat, update.args, so, po)
          /\ Quoted(last')
    /\ UNCHANGED <<FIAT_PREFS, client, update, stored>>
    /\ UNCHANGED airVars

HandleText(SO, PO) ==
    /\ Pending("text", "-")
    /\ LET m == text_route(update.text)
       IN  \E so \in SO, po \in PO, ao \in BOOLEAN :
              /\ last' = text_router(update.chat, m, so, po, ao)
              /\ Quoted(last')
    /\ UNCHANGED <<FIAT_PREFS, client, update, stored>>
    /\ UNCHANGED airVars

\* Some caller calls fetch_price of utils/crypto.py.
CryptoFetchPrice(PO) ==
    /\ Pending("call", "fetch_price")
    /\ \E po \in PO :
          LET f == crypto_fetch_price(<<update.args[1]>>, update.args[2], po)
          IN  /\ last' = [NoResult EXCEPT
                             !.handler = "utils.crypto.fetch_price",
                             !.raised = f.raised, !.price = f.calls,
                             !.ids = <<update.args[1]>>,
                             !.fiat = update.args[2]]
              /\ Quoted(last')
    /\ UNCHANGED <<FIAT_PREFS, client, update, stored>>
    /\ UNCHANGED airVars

\* Some caller calls fmt_price of utils/crypto.py on a price.
CryptoFmtPrice ==
    /\ Pending("call", "fmt_price")
    /\ \E p \in PriceSamples :
          last' = [NoResult EXCEPT
                      !.handler = "utils.crypto.fmt_price",
                      !.fiat = update.args[1], !.shown = Money(p),
                      !.text = crypto_fmt_price(Money(p), update.args[1])]
    /\ UNCHANGED <<FIAT_PREFS, client, update, stored, prevQuote, elapsed>>
    /\ UNCHANGED airVars

\* Time passes.
Tick ==
    /\ elapsed < QuoteTtl
    /\ elapsed' = elapsed + 1
    /\ UNCHANGED <<FIAT_PREFS, client, update, last, stored, prevQuote>>
    /\ UNCHANGED airVars

\* airupdate_cmd up to its await of the scraper.
AirupdateStart ==
    /\ airpc.cmd = "idle"
    /\ airpc' = [airpc EXCEPT !.cmd = "scraping"]
    /\ UNCHANGED <<AIRDROPS, LAST_AIR_UPDATE, keyboards, seen, updated, scraped>>
    /\ UNCHANGED botVars

\* The list replaced by what scrape_airdrops_sync returned for res, by
\* handler h: clear, extend, the date, save_cache and the count reported
\* run with no await between them.
Refreshed(h, res) ==
    /\ AIRDROPS' = scrape_airdrops_sync(res)
    /\ LAST_AIR_UPDATE' = TRUE
    /\ updated' = TRUE
    /\ scraped' = res
    /\ seen' = [NoSeen EXCEPT !.handler = h, !.total = Len(AIRDROPS'),
                              !.empty = (AIRDROPS' = <<>>)]

\* airupdate_cmd from the scraper's return on; R is what the sources may do.
AirupdateDone(R) ==
    /\ airpc.cmd = "scraping"
    /\ \E res \in R : Refreshed("airupdate_cmd", res)
    /\ airpc' = [airpc EXCEPT !.cmd = "idle"]
    /\ UNCHANGED keyboards
    /\ UNCHANGED botVars

\* job_airupdate, started by the job queue, up to its await of the scraper.
JobStart ==
    /\ airpc.job = "idle"
    /\ airpc' = [airpc EXCEPT !.job = "scraping"]
    /\ UNCHANGED <<AIRDROPS, LAST_AIR_UPDATE, keyboards, seen, updated, scraped>>
    /\ UNCHANGED botVars

JobDone(R) ==
    /\ airpc.job = "scraping"
    /\ \E res \in R : Refreshed("job_airupdate", res)
    /\ airpc' = [airpc EXCEPT !.job = "idle"]
    /\ UNCHANGED keyboards
    /\ UNCHANGED botVars

\* /airdrops: page 1 in a new message (the model forgets the oldest
\* message beyond MaxMessages).
AirdropsCmd ==
    /\ seen' = ShowPage("airdrops_cmd", 1)
    /\ keyboards' = IF seen'.kb = <<>> THEN keyboards
                    ELSE IF Len(keyboards) < MaxMessages
                    THEN Append(keyboards, seen'.kb)
                    ELSE Append(Tail(keyboards), seen'.kb)
    /\ UNCHANGED <<AIRDROPS, LAST_AIR_UPDATE, airpc, updated, scraped>>
    /\ UNCHANGED botVars

\* A button of the keyboard of message m is pressed: the message is edited
\* to the page of the button's callback data, with that page's keyboard.
AirCb ==
    /\ \E m \in 1..Len(keyboards) :
          \E k \in 1..Len(keyboards[m]) :
              /\ seen' = ShowPage("air_cb", keyboards[m][k].page)
              /\ keyboards' = [keyboards EXCEPT ![m] = seen'.kb]
    /\ UNCHANGED <<AIRDROPS, LAST_AIR_UPDATE, airpc, updated, scraped>>
    /\ UNCHANGED botVars

AirstatusCmd ==
    /\ seen' = [NoSeen EXCEPT !.handler = "airstatus_cmd",
                              !.empty = (AIRDROPS = <<>>),
                              !.total = Len(AIRDROPS)]
    /\ UNCHANGED <<AIRDROPS, LAST_AIR_UPDATE, airpc, keyboards, updated, scraped>>
    /\ UNCHANGED botVars

\* /tugas with the keyword key (no argument: <<>>), one of K.
TugasCmd(K) ==
    /\ \E key0 \in K, eo \in EnrichOutcomes :
          LET key == lower(key0)
              hit == {i \in 1..Len(AIRDROPS) :
                         \/ Contains(AIRDROPS[i].slug, key)
                         \/ Contains(lower(AIRDROPS[i].name), key)}
              base == [NoSeen EXCEPT !.handler = "tugas_cmd"]
          IN  IF key0 = <<>>
              THEN /\ seen' = base
                   /\ UNCHANGED AIRDROPS
              ELSE IF hit = {}
              THEN /\ seen' = [base EXCEPT !.empty = (AIRDROPS = <<>>),
                                           !.total = Len(AIRDROPS)]
                   /\ UNCHANGED AIRDROPS
              ELSE LET i == CHOOSE x \in hit : \A y \in hit : x <= y
                       a == enrich_airdrop_details(AIRDROPS[i], eo)
                   IN  /\ AIRDROPS' = [AIRDROPS EXCEPT ![i] = a]
                       /\ seen' = [base EXCEPT !.total = Len(AIRDROPS),
                                               !.chunk = <<a>>]
    /\ UNCHANGED <<LAST_AIR_UPDATE, airpc, keyboards, updated, scraped>>
    /\ UNCHANGED botVars

\* The resolver and the price requests, over time.
Next ==
    \/ Receive(Updates)
    \/ HandleSetfiat
    \/ HandlePrice(SearchOutcomes, PriceOutcomes)
    \/ HandlePrices(SearchOutcomes, PriceOutcomes)
    \/ HandleConvert(SearchOutcomes, PriceOutcomes)
    \/ HandleText(SearchOutcomes, PriceOutcomes)
    \/ Tick

Spec == Init /\ [][Next]_vars

\* The fiat codes of two chats.
NextFiat ==
    \/ Receive(FiatUpdates)
    \/ HandleSetfiat
    \/ HandlePrice(NoSearch, PriceOutcomes)
    \/ HandlePrices(NoSearch, PriceOutcomes)
    \/ HandleConvert(NoSearch, PriceOutcomes)
    \/ HandleText(NoSearch, PriceOutcomes)

SpecFiat == Init /\ [][NextFiat]_vars

\* The free-text router alone, on every short text.
InitParse ==
    /\ FIAT_PREFS = <<>>
    /\ client \in BOOLEAN
    /\ update \in {Text(1, t) : t \in ParseTexts}
    /\ last = NoResult
    /\ stored = [c \in CHATS |-> None]
    /\ prevQuote = NoQuote
    /\ elapsed = QuoteTtl
    /\ AirIdle

NextParse == HandleText(ParseSearch, ParsePrices)

SpecParse == InitParse /\ [][NextParse]_vars


\* The symbol resolver alone, on every symbol of ResolveSyms.
InitResolve ==
    /\ FIAT_PREFS = <<>>
    /\ client \in BOOLEAN
    /\ update \in {Cmd(1, "price", <<sym>>) : sym \in ResolveSyms}
    /\ last = NoResult
    /\ stored = [c \in CHATS |-> None]
    /\ prevQuote = NoQuote
    /\ elapsed = QuoteTtl
    /\ AirIdle

NextResolve == HandlePrice(SearchOutcomes, PriceOutcomes)

SpecResolve == InitResolve /\ [][NextResolve]_vars

\* Batches, conversions and the formatting of prices.
NextQuote ==
    \/ Receive(QuoteUpdates)
    \/ HandlePrice(SearchOutcomes, PriceOutcomes)
    \/ HandlePrices(SearchOutcomes, PriceOutcomes)
    \/ HandleConvert(SearchOutcomes, PriceOutcomes)
    \/ HandleText(SearchOutcomes, PriceOutcomes)
    \/ CryptoFetchPrice(PriceOutcomes)
    \/ CryptoFmtPrice

SpecQuote == Init /\ [][NextQuote]_vars

\* Names the sources list: two that _slugify maps to one slug, and more.
ZkSync  == <<"Z","k"," ","S","y","n","c">>
zk_sync == <<"z","k","-","s","y","n","c">>
Monad   == <<"M","o","n","a","d">>
A(k)    == <<"A", DigitChar[k + 1]>>

Rewards == {<<>>, <<"1","0","0">>}
Chains  == {<<>>, <<"E","T","H">>}

\* The entries source k may list under the names of N.
Entries(N, k) ==
    {Airdrop(n, r, c, SOURCES[k]) : n \in N, r \in Rewards, c \in Chains}

\* What source k may do: fail, list nothing, list one entry; the first
\* source may also list the two names of one slug together.
ScrapeOutcomes(k) ==
    {Failed, Gave(<<>>)}
    \cup {Gave(<<a>>) : a \in Entries({zk_sync, Monad}, k)}
    \cup (IF k = 1
          THEN {Gave(<<a>>) : a \in Entries({ZkSync}, k)}
               \cup {Gave(<<a, b>>) : a \in Entries({ZkSync}, k),
                                      b \in Entries({zk_sync}, k)}
          ELSE {})

ScrapeAll ==
    {<<o1, o2, o3, o4>> : o1 \in ScrapeOutcomes(1), o2 \in ScrapeOutcomes(2),
                          o3 \in ScrapeOutcomes(3), o4 \in ScrapeOutcomes(4)}

\* The aggregator alone: one /airupdate is waiting for the scraper.
InitScrape ==
    /\ FIAT_PREFS = <<>>
    /\ client \in BOOLEAN
    /\ update = NoUpdate
    /\ last = NoResult
    /\ stored = [c \in CHATS |-> None]
    /\ prevQuote = NoQuote
    /\ elapsed = QuoteTtl
    /\ AIRDROPS = <<>>
    /\ LAST_AIR_UPDATE = FALSE
    /\ airpc = [cmd |-> "scraping", job |-> "idle"]
    /\ keyboards = <<>>
    /\ seen = NoSeen
    /\ updated = FALSE
    /\ scraped = <<>>

NextScrape == AirupdateDone(ScrapeAll)

SpecScrape == InitScrape /\ [][NextScrape]_vars

\* What the sources do in the airdrop specification: all fail; the first
\* lists six entries; two list the same slug and one lists nothing.
AirResults ==
    { <<Failed, Failed, Failed, Failed>>,
      <<Gave([k \in 1..(per_page + 1) |->
                 Airdrop(A(k), <<>>, <<>>, SOURCES[1])]),
        Failed, Failed, Failed>>,
      <<Gave(<<Airdrop(ZkSync, <<>>, <<>>, SOURCES[1])>>),
        Gave(<<Airdrop(zk_sync, <<"1","0","0">>, <<>>, SOURCES[2])>>),
        Failed, Gave(<<>>)>> }

\* The list load_cache finds at start: no file, or one saved earlier.
CacheSamples ==
    {<<>>, <<Airdrop(Monad, <<>>, <<"E","T","H">>, SOURCES[3])>>}

\* Keywords of /tugas: none, one that names entries, one that names none.
TugasKeys == {<<>>, <<"A">>, <<"x","y">>}

\* The airdrop handlers, the scheduled job and the button presses.
InitAir ==
    /\ FIAT_PREFS = <<>>
    /\ client \in BOOLEAN
    /\ update = NoUpdate
    /\ last = NoResult
    /\ stored = [c \in CHATS |-> None]
    /\ prevQuote = NoQuote
    /\ elapsed = QuoteTtl
    /\ AIRDROPS \in CacheSamples
    /\ LAST_AIR_UPDATE = FALSE
    /\ airpc = [cmd |-> "idle", job |-> "idle"]
    /\ keyboards = <<>>
    /\ seen = NoSeen
    /\ updated = FALSE
    /\ scraped = <<>>

NextAir ==
    \/ AirupdateStart
    \/ AirupdateDone(AirResults)
    \/ JobStart
    \/ JobDone(AirResults)
    \/ AirdropsCmd
    \/ AirCb
    \/ AirstatusCmd
    \/ TugasCmd(TugasKeys)

SpecAir == InitAir /\ [][NextAir]_vars

---------------------------------------------------------------------------
(* Claims. *)

Handled(h) == last.handler = h

\* The patterns of text_router that match t.
Shapes(t) ==
    (IF matches(PAIR_PATTERN, t) THEN {"PAIR_PATTERN"} ELSE {})
    \cup (IF matches(COIN_FIAT_PAT, t) THEN {"COIN_FIAT_PAT"} ELSE {})
    \cup (IF matches(SINGLE_COIN, t) THEN {"SINGLE_COIN"} ELSE {})

\* C1: whatever the text, text_router ends without an exception, having sent
\* one reply in exactly one of its four branches (convert, pair, single,
\* unrecognized), and it is in the unrecognized branch exactly when none of
\* the three patterns matches the text.
Thm_C1 ==
    Handled("text_router") =>
        /\ ~last.raised
        /\ Len(last.replies) = 1
        /\ last.branch \in {"convert", "pair", "single", "unrecognized"}
        /\ (last.branch = "unrecognized") <=> (Shapes(strip(update.text)) = {})

\* A whitespace-only text was answered "not recognized".
Wit_C1 ==
    /\ Handled("text_router")
    /\ update.text # <<>>
    /\ strip(update.text) = <<>>
    /\ last.replies = <<"unrecognized">>

BranchOf(pat) ==
    CASE pat = "PAIR_PATTERN"  -> "convert"
      [] pat = "COIN_FIAT_PAT" -> "pair"
      [] pat = "SINGLE_COIN"   -> "single"
      [] OTHER                 -> "unrecognized"

\* C2: the branch text_router takes is that of the first pattern, in the
\* order PAIR_PATTERN, COIN_FIAT_PAT, SINGLE_COIN, that matches the line, and
\* no line matches more than one of the three patterns.
Cex_C2 ==
    Handled("text_router") =>
        LET shapes == Shapes(strip(update.text))
        IN  /\ Cardinality(shapes) <= 1
            /\ \A p \in shapes : last.branch = BranchOf(p)

\* t is two alphanumeric tokens separated by whitespace or by one "/".
TwoTokens(t, i, j) ==
    /\ 1 < i /\ i <= j /\ j < Len(t)
    /\ \A k \in 1..(i - 1) : t[k] \in Alnum
    /\ \A k \in (j + 1)..Len(t) : t[k] \in Alnum
    /\ \/ \A k \in i..j : t[k] \in Space
       \/ i = j /\ t[i] = "/"

\* C3: a line of exactly two alphanumeric tokens separated by whitespace or
\* "/" is handled as the price lookup of the first token in the second.
Cex_C3 ==
    Handled("text_router") =>
        LET t == strip(update.text)
        IN  \A i, j \in 1..Len(t) :
                TwoTokens(t, i, j) =>
                    /\ last.branch = "pair"
                    /\ Len(last.resolved) = 1
                    /\ last.resolved[1].sym = SubSeq(t, 1, i - 1)
                    /\ last.fiat = lower(SubSeq(t, j + 1, Len(t)))

\* C4: text_router issues no chat-completion request for a text that one of
\* the three patterns matches, whatever the lookup then does.
Thm_C4 ==
    (Handled("text_router") /\ Shapes(strip(update.text)) # {}) => last.ai = 0

\* With the chat-completion client built, a matched text whose symbol was
\* not found was answered without a chat-completion request.
Wit_C4 ==
    /\ Handled("text_router")
    /\ client
    /\ Shapes(strip(update.text)) # {}
    /\ last.replies = <<"not_found">>
    /\ last.ai = 0

\* The handler did what was asked with the fiat: stored it, or showed a
\* price or a total in it.
FiatAccepted ==
    last.replies \in {<<"fiat_set">>, <<"price">>, <<"prices">>, <<"converted">>}

\* C5: a fiat code the user supplied whose lower case is none of usd, usdt,
\* idr, eur is never accepted (the reply is an error), and one of the four is
\* never answered with the fiat error.
Cex_C5 ==
    (last.fiat # None /\ ~last.omitted /\ last.replies # <<"fiat_show">>) =>
        /\ (last.fiat \notin ALLOWED_FIATS) => ~FiatAccepted
        /\ (last.fiat \in ALLOWED_FIATS) => last.replies # <<"fiat_invalid">>

\* C6: a request that omits the fiat works with the fiat /setfiat last
\* confirmed in the same chat, or with FIAT_DEFAULT when it confirmed none
\* there (so that no /setfiat of another chat, and no rejected one, shows).
Thm_C6 ==
    last.omitted =>
        last.fiat = IF stored[update.chat] = None THEN FIAT_DEFAULT
                    ELSE stored[update.chat]

\* Chat 2 asked a price without a fiat and got it in the eur it had set,
\* after chat 1 had set idr.
Wit_C6 ==
    /\ last.omitted
    /\ update.chat = 2
    /\ last.fiat = lower(EUR)
    /\ stored[1] = idr
    /\ last.replies \in {<<"price">>, <<"prices">>}

\* The ids the upstream's search answered call c with.
Supplied(c) ==
    IF c.search > 0 /\ c.answer.ok
    THEN {c.answer.coins[k] : k \in 1..Len(c.answer.coins)} ELSE {}

\* The ids the static table and the upstream's search hold for call c.
Sources(c) ==
    LET key == strip(lower(c.sym))
    IN  (IF key \in DOMAIN SYMBOL_MAP THEN {SYMBOL_MAP[key]} ELSE {})
        \cup Supplied(c)

\* C7: resolve_coin_id returns an id only if the static table or the
\* upstream's search supplied it, so every id a price is requested for was
\* supplied by one of the two.
Cex_C7 ==
    /\ \A k \in 1..Len(last.resolved) :
          last.resolved[k].id # None =>
              last.resolved[k].id \in Sources(last.resolved[k])
    /\ \A k \in 1..Len(last.ids) :
          \E j \in 1..Len(last.resolved) :
              last.ids[k] \in Sources(last.resolved[j])

\* C8: for a ticker of the static table resolve_coin_id returns the table's
\* id and issues no request, whatever the upstream would answer.
Thm_C8 ==
    \A k \in 1..Len(last.resolved) :
        LET c == last.resolved[k]
        IN  c.sym \in DOMAIN SYMBOL_MAP =>
                /\ c.id = SYMBOL_MAP[c.sym]
                /\ c.search = 0

\* "ton" was resolved to the table's id and its price requested.
Wit_C8 ==
    /\ Len(last.resolved) = 1
    /\ last.resolved[1].sym = <<"t","o","n">>
    /\ last.resolved[1].id = SYMBOL_MAP[<<"t","o","n">>]
    /\ last.ids = <<SYMBOL_MAP[<<"t","o","n">>]>>

\* The ticker of a symbol: lower case, without the leading "$".
RECURSIVE Ticker(_)
Ticker(sym) ==
    IF sym # <<>> /\ Head(sym) = "$" THEN Ticker(Tail(sym)) ELSE lower(sym)

\* C9: resolving a symbol gives what resolving its ticker gives (the symbol
\* in lower case without its leading "$"), the upstream answering alike.
Cex_C9 ==
    \A k \in 1..Len(last.resolved) :
        LET c == last.resolved[k]
        IN  \A so \in SearchOutcomes :
                (c.search > 0 => so = c.answer) =>
                    c.id = resolve_coin_id(Ticker(c.sym), so).id

\* C10: a handler that needs the price of ids in a fiat which the latest
\* upstream price request, less than QuoteTtl ago, was for, issues no
\* upstream price request.
Cex_C10 ==
    [][ ( /\ last = NoResult
          /\ last' # NoResult
          /\ elapsed < QuoteTtl
          /\ last'.ids # <<>>
          /\ last'.fiat = prevQuote.fiat
          /\ {last'.ids[k] : k \in 1..Len(last'.ids)} \subseteq prevQuote.ids )
        => last'.price = 0 ]_vars

\* C11: in a batch that shows prices, every id the request named has a line
\* of its own in the reply: its price when the payload holds it, a
\* "not found" otherwise.
Cex_C11 ==
    (Handled("prices_cmd") /\ last.replies = <<"prices">>) =>
        \A k \in 1..Len(last.ids) :
            \E j \in 1..Len(last.lines) : last.lines[j].cid = last.ids[k]

\* C12: a conversion of a zero or negative amount, by /convert or by free
\* text, is answered with the amount error and shows no total.
Cex_C12 ==
    (/\ last.handler \in {"convert_cmd", "text_router"}
     /\ last.amount.ok
     /\ (last.amount.mant = 0 \/ last.amount.neg)) =>
        /\ last.replies = <<"amount_invalid">>
        /\ ~last.shown.ok

\* C13: no exception leaves the symbol resolver, a price fetch or a handler
\* when the upstream fails, and a search that failed gives no id.
Cex_C13 ==
    /\ ~last.raised
    /\ \A k \in 1..Len(last.resolved) :
          (last.resolved[k].search = 1 /\ ~last.resolved[k].answer.ok) =>
              last.resolved[k].id = None

\* C14: the reply of /prices shows no asset twice.
Cex_C14 ==
    Handled("prices_cmd") =>
        \A i, j \in 1..Len(last.lines) :
            i < j => last.lines[i].cid # last.lines[j].cid

\* The fractional digits of a formatted price.
FracDigits(t) ==
    LET dots == {i \in 1..Len(t) : t[i] = "."}
    IN  IF dots = {} THEN 0
        ELSE Cardinality({i \in 1..Len(t) :
                 /\ i > CHOOSE d \in dots : TRUE
                 /\ t[i] \in Digits})

\* floor(-log10(v)) of a value 0 < v < 1
Magnitude(v) ==
    CHOOSE k \in 0..v.frac :
        /\ v.mant * Pow10(k) <= Pow10(v.frac)
        /\ v.mant * Pow10(k + 1) > Pow10(v.frac)

Clamp(lo, hi, n) == IF n < lo THEN lo ELSE IF n > hi THEN hi ELSE n

\* C15: a price 0 < v < 1 is written with clamp(2, 8, floor(-log10(v)) + 2)
\* fractional digits, one of them not zero.
Cex_C15 ==
    (/\ last.text # <<>>
     /\ last.shown.ok /\ ~last.shown.neg
     /\ 0 < last.shown.mant /\ last.shown.mant < Pow10(last.shown.frac)) =>
        /\ FracDigits(last.text) = Clamp(2, 8, Magnitude(last.shown) + 2)
        /\ \E i \in 1..Len(last.text) : last.text[i] \in Digits \ {"0"}

AllFailed == <<Failed, Failed, Failed, Failed>>

\* C16: once an update of the airdrop list has completed, AIRDROPS is never
\* empty and no handler finds it empty, whatever runs in between and
\* whatever the sources did.
Thm_C16 ==
    updated => (AIRDROPS # <<>> /\ ~seen.empty)

\* A button press finds the list filled after an update in which every
\* source failed, while the scheduled job is waiting for its scraper.
Wit_C16 ==
    /\ updated
    /\ scraped = AllFailed
    /\ seen.handler = "air_cb"
    /\ ~seen.empty
    /\ airpc.job = "scraping"

\* The entries the sources gave the latest update.
ScrapedEntries ==
    {results_of(scraped)[k] : k \in 1..Len(results_of(scraped))}

DistinctSlugs(l) ==
    \A i, j \in 1..Len(l) : i < j => l[i].slug # l[j].slug

\* C17 as claimed: the list scrape_airdrops_sync returned has pairwise
\* distinct slugs and each of its entries is an entry a source gave.
Cex_C17 ==
    seen.handler = "airupdate_cmd" =>
        /\ DistinctSlugs(AIRDROPS)
        /\ \A k \in 1..Len(AIRDROPS) : AIRDROPS[k] \in ScrapedEntries

\* C17: the list scrape_airdrops_sync returned has pairwise distinct slugs;
\* each of its entries is an entry a source gave, unless no source gave any:
\* then the list is the one fallback entry.
Thm_C17 ==
    seen.handler = "airupdate_cmd" =>
        /\ DistinctSlugs(AIRDROPS)
        /\ IF ScrapedEntries = {}
           THEN AIRDROPS = <<FALLBACK>>
           ELSE \A k \in 1..Len(AIRDROPS) : AIRDROPS[k] \in ScrapedEntries

\* Five entries of four sources under two slugs: two are kept, the first of
\* them the entry of the third source, which replaced an earlier one.
Wit_C17 ==
    /\ seen.handler = "airupdate_cmd"
    /\ Len(results_of(scraped)) = 5
    /\ Len(AIRDROPS) = 2
    /\ AIRDROPS[1].source = SOURCES[3]

\* The kinds of the buttons air_cb offered.
Offered == {seen.kb[k].kind : k \in 1..Len(seen.kb)}

\* C18: a button press that finds AIRDROPS filled shows a page with at least
\* one airdrop, with a Next button exactly when page * per_page < total and
\* a Prev button exactly when page > 1.
Cex_C18 ==
    (seen.handler = "air_cb" /\ ~seen.empty) =>
        /\ Len(seen.chunk) >= 1
        /\ ("air_next" \in Offered) <=> (seen.page * per_page < seen.total)
        /\ ("air_prev" \in Offered) <=> (seen.page > 1)

=============================================================================
